---- MODULE Spec2Model ----
(***************************************************************************)
(* Model of the mesh orchestrator of neuroglancer's chunked-graph fork:    *)
(*   - MeshLayer (src/neuroglancer/mesh/backend.ts): the recompute pass    *)
(*     updateChunkPriorities, the graph fallback for failed manifests, the *)
(*     pending child-chunk batch and its debounced flush handleChildChunks; *)
(*   - ChunkedGraphLayer (src/neuroglancer/chunked_graph/frontend.ts): the *)
(*     graph client calls getRoot, mergeSegments and splitSegments.        *)
(* The JavaScript execution context is single threaded: every synchronous  *)
(* function body, promise callback and timer callback is one atomic        *)
(* action.                                                                 *)
(***************************************************************************)
EXTENDS Integers, Sequences, FiniteSets, Bags, TLC

\* ------------------------------------------------------------------ bounds

\* Total number of getChildren calls the recompute passes may issue.
MaxGetChildren == 3
\* Total number of external mutations of the shared sets and of the visibility.
MaxExternal == 2
\* Number of graph client calls (getRoot, mergeSegments, splitSegments) made.
MaxGraphCalls == 2
\* Largest number of indices in an encoded fragment.
MaxIndices == 4
\* Number of getFragmentChunk calls made.
MaxFragmentCalls == 3

\* --------------------------------------------------------- program constants

\* Wait of the debounced flush, in milliseconds.
DEBOUNCE_WAIT == 100

\* Offsets added to the base priority of manifest and fragment chunk requests.
MESH_OBJECT_MANIFEST_CHUNK_PRIORITY == 100
MESH_OBJECT_FRAGMENT_CHUNK_PRIORITY == 50

\* getBasePriority(visibility) of a layer that is prefetched, not visible.
PREFETCH_BASE_PRIORITY == 1000

\* ----------------------------------------------------------- the id universe

\* Segment ids of the modelled dataset.  5 and 1 are the ids the display layer
\* may select as roots; 6 and 7 are the next level below 5.
Segments == {1, 5, 6, 7}
RootCandidates == {1, 5}

\* The answer of the graph service to getChildren(segment), in wire order.
\* 7 is returned as its own child, 6 and 1 have no children.
GraphChildren(s) ==
  CASE s = 5 -> <<6, 7>>
    [] s = 7 -> <<7>>
    [] OTHER -> <<>>

\* ------------------------------------------------------------------ helpers

Range(q) == {q[i] : i \in 1..Len(q)}

Min(a, b) == IF a <= b THEN a ELSE b

\* Uint64.toString(): the decimal digits of the id, most significant first.
RECURSIVE Uint64ToString(_)
Uint64ToString(n) ==
  IF n < 10 THEN <<n>> ELSE Append(Uint64ToString(n \div 10), n % 10)

\* Uint64.parseString(): the id whose decimal digits are the string.
RECURSIVE Uint64ParseString(_)
Uint64ParseString(str) ==
  IF Len(str) = 0 THEN 0
  ELSE 10 * Uint64ParseString(SubSeq(str, 1, Len(str) - 1)) + str[Len(str)]

\* Strings as sequences of characters.
DigitChars == <<"0", "1", "2", "3", "4", "5", "6", "7", "8", "9">>

RECURSIVE ToChars(_)
ToChars(digits) ==
  IF Len(digits) = 0 THEN <<>>
  ELSE <<DigitChars[Head(digits) + 1]>> \o ToChars(Tail(digits))

\* A clip bounds value: center and size, one digit per coordinate here; and
\* the value of a layer without clip bounds.
NoBounds == [center |-> <<>>, size |-> <<>>]

\* getObjectKey(objectId, bounds): "low,high" and, with bounds,
\* "/cx,cy,cz:sx,sy,sz".
GetObjectKey(objectId, bounds) ==
  LET bare == ToChars(Uint64ToString(objectId)) \o <<",", "0">>
      c == bounds.center
      z == bounds.size
  IN IF bounds = NoBounds THEN bare
     ELSE bare \o <<"/">> \o ToChars(<<c[1]>>) \o <<",">> \o ToChars(<<c[2]>>) \o <<",">>
               \o ToChars(<<c[3]>>) \o <<":">> \o ToChars(<<z[1]>>) \o <<",">>
               \o ToChars(<<z[2]>>) \o <<",">> \o ToChars(<<z[3]>>)

\* The key of getFragmentChunk: `${manifestChunk.key}/${fragmentId}`.
FragmentKey(manifestKey, fragmentId) == manifestKey \o <<"/">> \o fragmentId

\* The fragment ids the manifest of a segment lists once it is downloaded.
ManifestFragments(s) ==
  CASE s = 1 -> <<<<"a">>>>
    [] s = 5 -> <<<<"a">>, <<"b">>>>
    [] OTHER -> <<>>

\* ChunkState values.
LoadedStates == {"SYSTEM_MEMORY_WORKER", "SYSTEM_MEMORY", "GPU_MEMORY"}
ChunkStates ==
  {"NEW", "QUEUED", "DOWNLOADING", "FAILED", "REQUESTING_CHILDREN"} \cup LoadedStates

\* ------------------------------------------------------------------- state

VARIABLES
  chunkedGraph,         \* MeshLayer.chunkedGraph: TRUE iff not null
  visibility,           \* MeshLayer.visibility.value: "NEG_INF", "PREFETCH" or "VISIBLE"
  rootSegments,         \* shared Uint64Set
  visibleSegments3D,    \* shared Uint64Set
  iterationOrder,       \* the order in which the hash table of the set is iterated
  segmentEquivalences,  \* shared DisjointUint64Sets: segment -> representative
  manifestState,        \* state of the manifest chunk of each object id
  priorityTier,         \* priorityTier of the manifest chunk of each object id
  getChildrenCalls,     \* bag of outstanding getChildren promises [seg, root]
  requestedChildChunks, \* MeshLayer.requestedChildChunks, in insertion order
  scheduledFlushes,     \* number of timers the debounce has scheduled
  updateScheduled,      \* chunkManager: a recompute pass is scheduled
  numGetChildren,       \* getChildren calls issued so far
  numExternal,          \* external mutations so far
  cycles,               \* history: entries into REQUESTING_CHILDREN per manifest
  callHistory,          \* history: per segment, its latest getChildren call's root
                        \* was in rootSegments at issue / was removed since
  batch,                \* history: responses accumulated since the last flush
  lastStep              \* history: the handler that ran last

VARIABLES
  graphurl,             \* ChunkedGraphLayer.graphurl ("" when no server is configured)
  graphCalls,           \* the promises returned by getRoot / mergeSegments / splitSegments
  httpRequests          \* the HTTP requests in flight, each for one call

graphVars == <<graphurl, graphCalls, httpRequests>>

VARIABLES
  mappings,             \* ChunkedGraphChunk.mappings: root key -> "null" or "mapped"
  promises,             \* the per-root sub-requests of download: root key -> state
  downloadPromise       \* the promise download returns

leafVars == <<mappings, promises, downloadPromise>>

VARIABLES
  ENDIANNESS,           \* the byte order of the platform: "LITTLE" or "BIG"
  response,             \* the ArrayBuffer of the fragment download, as bytes
  encoded,              \* history: the vertex and index lists the buffer was built from
  fragmentChunk,        \* FragmentChunk: vertexPositions, indices, vertexNormals
  downloadResult,       \* how far the fragment download got, and the error thrown
  transfers,            \* the transfer list handed to serialize
  msg                   \* the message serialize filled in

fragmentVars ==
  <<ENDIANNESS, response, encoded, fragmentChunk, downloadResult, transfers, msg>>

VARIABLES
  chunks,               \* MeshSource.chunks: the manifest chunks, by key
  fragmentSourceChunks, \* FragmentSource.chunks: the fragment chunks, by key
  getFragmentChunkCalls \* history: the calls of getFragmentChunk and their results

sourceVars == <<chunks, fragmentSourceChunks, getFragmentChunkCalls>>

VARIABLES
  manifestChunks,       \* the ManifestChunk of each object: its state and fragmentIds
  manifestDownloads     \* history: how the download of each manifest ended

manifestVars == <<manifestChunks, manifestDownloads>>

meshVars ==
  <<chunkedGraph, visibility, rootSegments, visibleSegments3D, iterationOrder,
    segmentEquivalences, manifestState, priorityTier, getChildrenCalls, requestedChildChunks, scheduledFlushes,
    updateScheduled, numGetChildren, numExternal, cycles, callHistory, batch, lastStep>>

vars == <<meshVars, graphVars, leafVars, fragmentVars, sourceVars, manifestVars>>

\* The variables of the other components, as seen from the mesh layer and from
\* the graph client.
nonMeshVars == <<graphVars, leafVars, fragmentVars, sourceVars, manifestVars>>
nonGraphVars == <<meshVars, leafVars, fragmentVars, sourceVars, manifestVars>>
nonLeafVars == <<meshVars, graphVars, fragmentVars, sourceVars, manifestVars>>
nonFragmentVars == <<meshVars, graphVars, leafVars, sourceVars, manifestVars>>
nonSourceVars == <<meshVars, graphVars, leafVars, fragmentVars, manifestVars>>
nonManifestVars == <<meshVars, graphVars, leafVars, fragmentVars, sourceVars>>

\* lastStep after a step of the chunk manager or of the environment.
NoStep == [kind |-> "none"]

\* ------------------------------------------------- shared sets (collaborators)

\* DisjointUint64Sets.get: the representative of the segment's class.
EquivalenceGet(eq, s) == eq[s]

\* DisjointUint64Sets.link: union of the classes of a and b.
EquivalenceLink(eq, a, b) ==
  LET ra == eq[a]
      rb == eq[b]
      m == Min(ra, rb)
  IN [x \in DOMAIN eq |-> IF eq[x] \in {ra, rb} THEN m ELSE eq[x]]

Linked(eq, a, b) == eq[a] = eq[b]

\* forEachVisibleSegment3D: the (objectId, rootObjectId) pairs handed to the callback.
ForEachVisibleSegment3D(visible, eq) ==
  {<<s, EquivalenceGet(eq, s)>> : s \in visible}

\* ------------------------------------------------------------- initial state

\* Iteration orders of the segment ids (the hash table's seeds are random).
IterationOrders == {<<1, 5, 6, 7>>, <<7, 6, 5, 1>>, <<5, 7, 1, 6>>}

MeshInit ==
  /\ chunkedGraph \in BOOLEAN
  /\ iterationOrder \in IterationOrders
  /\ visibility = "VISIBLE"
  /\ rootSegments \in SUBSET RootCandidates
  /\ visibleSegments3D = rootSegments
  /\ segmentEquivalences = [s \in Segments |-> s]
  /\ manifestState = [s \in Segments |-> "NEW"]
  /\ priorityTier = [s \in Segments |-> "RECENT"]
  /\ getChildrenCalls = EmptyBag
  /\ requestedChildChunks = <<>>
  /\ scheduledFlushes = 0
  /\ updateScheduled = TRUE
  /\ numGetChildren = 0
  /\ numExternal = 0
  /\ cycles = [s \in Segments |-> 0]
  /\ callHistory = [s \in Segments |-> [atIssue |-> FALSE, removed |-> FALSE]]
  /\ batch = <<>>
  /\ lastStep = NoStep

\* --------------------------------------------------- chunk manager (collaborator)

\* ChunkPriorityTier: VISIBLE < PREFETCH < RECENT, a smaller tier is more urgent.
TierRank(tier) == CASE tier = "VISIBLE" -> 0 [] tier = "PREFETCH" -> 1 [] OTHER -> 2
TierMoreUrgent(a, b) == TierRank(a) < TierRank(b)

\* getPriorityTier(visibility).
GetPriorityTier(v) == IF v = "VISIBLE" THEN "VISIBLE" ELSE "PREFETCH"

\* getBasePriority(visibility).
GetBasePriority(v) == IF v = "VISIBLE" THEN 0 ELSE PREFETCH_BASE_PRIORITY

\* chunkManager.requestChunk: a chunk requested for the first time is queued.
RequestChunk(st) == IF st = "NEW" THEN "QUEUED" ELSE st

\* The chunk queue starts the download of a queued manifest chunk.
ChunkDownloadStart(s) ==
  /\ manifestState[s] = "QUEUED"
  /\ manifestState' = [manifestState EXCEPT ![s] = "DOWNLOADING"]
  /\ lastStep' = NoStep
  /\ UNCHANGED <<nonMeshVars, chunkedGraph, iterationOrder, visibility, rootSegments, visibleSegments3D,
                 segmentEquivalences, priorityTier, getChildrenCalls, requestedChildChunks,
                 scheduledFlushes, updateScheduled, numGetChildren, numExternal,
                 cycles, callHistory, batch>>

\* ManifestChunk.downloadSucceeded: a pass is scheduled when the chunk's tier is
\* more urgent than RECENT.
ManifestDownloadSucceeded(s) ==
  /\ manifestState[s] = "DOWNLOADING"
  /\ manifestState' = [manifestState EXCEPT ![s] = "SYSTEM_MEMORY_WORKER"]
  /\ updateScheduled' = (updateScheduled \/ TierMoreUrgent(priorityTier[s], "RECENT"))
  /\ lastStep' = NoStep
  /\ UNCHANGED <<nonMeshVars, chunkedGraph, iterationOrder, visibility, rootSegments, visibleSegments3D,
                 segmentEquivalences, priorityTier, getChildrenCalls, requestedChildChunks,
                 scheduledFlushes, numGetChildren, numExternal, cycles, callHistory, batch>>

\* The last statement of downloadFailed: scheduleUpdateChunkPriorities(), with
\* no condition.
ScheduledAfterDownloadFailedKept(scheduled) == scheduled
ScheduledAfterDownloadFailed(scheduled) == TRUE

\* ManifestChunk.downloadFailed: the chunk is FAILED and a pass is scheduled.
ManifestDownloadFailed(s) ==
  /\ manifestState[s] = "DOWNLOADING"
  /\ manifestState' = [manifestState EXCEPT ![s] = "FAILED"]
  /\ updateScheduled' = ScheduledAfterDownloadFailed(updateScheduled)
  /\ lastStep' = NoStep
  /\ UNCHANGED <<nonMeshVars, chunkedGraph, iterationOrder, visibility, rootSegments, visibleSegments3D,
                 segmentEquivalences, priorityTier, getChildrenCalls, requestedChildChunks,
                 scheduledFlushes, numGetChildren, numExternal, cycles, callHistory, batch>>

\* The chunk manager hands a downloaded manifest to the frontend, and the
\* frontend copies it to the GPU.
ChunkPromotion(s) ==
  /\ manifestState[s] \in {"SYSTEM_MEMORY_WORKER", "SYSTEM_MEMORY"}
  /\ manifestState' =
       [manifestState EXCEPT ![s] =
          IF manifestState[s] = "SYSTEM_MEMORY_WORKER" THEN "SYSTEM_MEMORY" ELSE "GPU_MEMORY"]
  /\ lastStep' = NoStep
  /\ UNCHANGED <<nonMeshVars, chunkedGraph, iterationOrder, visibility, rootSegments, visibleSegments3D,
                 segmentEquivalences, priorityTier, getChildrenCalls, requestedChildChunks,
                 scheduledFlushes, updateScheduled, numGetChildren, numExternal,
                 cycles, callHistory, batch>>

\* ------------------------------------------------------- the recompute pass

\* The switch of updateChunkPriorities on the manifest's state: whether the pass
\* starts the graph fallback for a manifest in state st.
StartsFallbackWithoutClient(st) == st = "FAILED"
StartsFallbackWhileRequesting(st) ==
  st \in {"FAILED", "REQUESTING_CHILDREN"} /\ chunkedGraph
StartsFallback(st) == st = "FAILED" /\ chunkedGraph

\* The state the pass leaves the manifest chunk of a visible segment in.
PassManifestState(st) ==
  LET requested == RequestChunk(st)
  IN IF StartsFallback(requested) THEN "REQUESTING_CHILDREN" ELSE requested

\* The pair the live objectId and rootObjectId objects of the iteration hold
\* once forEachVisibleSegment3D has returned: the pair it visited last, in the
\* iteration order of the set.
LastVisited ==
  IF visibleSegments3D = {}
  THEN <<0, 0>>
  ELSE LET i == CHOOSE j \in 1..Len(iterationOrder) :
                  /\ iterationOrder[j] \in visibleSegments3D
                  /\ \A k \in (j + 1)..Len(iterationOrder) :
                       iterationOrder[k] \notin visibleSegments3D
       IN <<iterationOrder[i], EquivalenceGet(segmentEquivalences, iterationOrder[i])>>

\* The getChildren calls a pass issues: one per visible segment whose manifest
\* starts the fallback.  seg and root are segmentID and rootID, cloned when the
\* call is issued; objectId and rootObjectId are the values the live objects
\* captured by the callback hold after the iteration.
PassCalls ==
  {[seg |-> p[1], root |-> p[2],
    objectId |-> LastVisited[1], rootObjectId |-> LastVisited[2]] :
     p \in {q \in ForEachVisibleSegment3D(visibleSegments3D, segmentEquivalences) :
              StartsFallback(RequestChunk(manifestState[q[1]]))}}

\* The switch on the manifest's state: whether the pass requests the fragment
\* chunks of a manifest in state st.
RequestsFragmentsAlways(st) == st # "NEW"
RequestsFragments(st) == st \in LoadedStates

\* The offsets of the two requestChunk calls of the pass.
FragmentOffsetOfManifest == MESH_OBJECT_MANIFEST_CHUNK_PRIORITY
ManifestOffset == MESH_OBJECT_MANIFEST_CHUNK_PRIORITY
FragmentOffset == MESH_OBJECT_FRAGMENT_CHUNK_PRIORITY

\* The chunkManager.requestChunk calls of one pass: the manifest chunk of every
\* visible segment, and the fragment chunks of the loaded manifests.
PassRequests ==
  LET tier == GetPriorityTier(visibility)
      basePriority == GetBasePriority(visibility)
      manifestKey(s) == GetObjectKey(s, NoBounds)
  IN {[kind |-> "manifest", object |-> s, key |-> manifestKey(s), tier |-> tier,
       priority |-> basePriority + ManifestOffset] : s \in visibleSegments3D}
     \cup
     UNION {{[kind |-> "fragment", object |-> s,
              key |-> FragmentKey(manifestKey(s), f), tier |-> tier,
              priority |-> basePriority + FragmentOffset] :
               f \in Range(ManifestFragments(s))} :
            s \in {x \in visibleSegments3D : RequestsFragments(RequestChunk(manifestState[x]))}}

\* The test at the head of updateChunkPriorities: the pass returns at once when
\* the visibility is Number.NEGATIVE_INFINITY.
ReturnsEarlyNever(v) == FALSE
ReturnsEarly(v) == v = "NEG_INF"

\* MeshLayer.updateChunkPriorities, run by chunkManager.recomputeChunkPriorities.
UpdateChunkPriorities ==
  /\ updateScheduled
  /\ updateScheduled' = FALSE
  /\ IF ReturnsEarly(visibility)
     THEN /\ lastStep' = [kind |-> "pass", calls |-> {}, requests |-> {}]
          /\ priorityTier' = [s \in Segments |-> "RECENT"]
          /\ UNCHANGED <<manifestState, getChildrenCalls, numGetChildren, cycles,
                         callHistory>>
     ELSE /\ numGetChildren + Cardinality(PassCalls) <= MaxGetChildren
          /\ manifestState' =
               [s \in Segments |->
                  IF s \in visibleSegments3D
                  THEN PassManifestState(manifestState[s])
                  ELSE manifestState[s]]
          /\ priorityTier' =
               [s \in Segments |->
                  IF s \in visibleSegments3D
                  THEN GetPriorityTier(visibility)
                  ELSE "RECENT"]
          /\ getChildrenCalls' = getChildrenCalls (+) SetToBag(PassCalls)
          /\ numGetChildren' = numGetChildren + Cardinality(PassCalls)
          /\ cycles' =
               [s \in Segments |->
                  IF \E c \in PassCalls : c.seg = s THEN cycles[s] + 1 ELSE cycles[s]]
          /\ callHistory' =
               [s \in Segments |->
                  IF \E c \in PassCalls : c.seg = s
                  THEN [atIssue |-> EquivalenceGet(segmentEquivalences, s) \in rootSegments,
                        removed |-> FALSE]
                  ELSE callHistory[s]]
          /\ lastStep' = [kind |-> "pass", calls |-> PassCalls, requests |-> PassRequests]
  /\ UNCHANGED <<nonMeshVars, chunkedGraph, iterationOrder, visibility, rootSegments, visibleSegments3D,
                 segmentEquivalences, requestedChildChunks, scheduledFlushes,
                 numExternal, batch>>

\* ------------------------------------------------- the pending child-chunk batch

\* Map.has(key) on requestedChildChunks.
PendingHas(pending, key) == \E i \in 1..Len(pending) : pending[i].key = key

\* The accumulation of one accepted response: the entry of the root is created
\* when missing, the children are pushed onto its add list and the segment onto
\* its delete list.
PendingAccumulate(pending, key, children, segmentID) ==
  LET withEntry ==
        IF PendingHas(pending, key)
        THEN pending
        ELSE Append(pending, [key |-> key, add |-> <<>>, delete |-> <<>>])
  IN [i \in 1..Len(withEntry) |->
        IF withEntry[i].key = key
        THEN [key |-> key,
              add |-> withEntry[i].add \o children,
              delete |-> Append(withEntry[i].delete, segmentID)]
        ELSE withEntry[i]]

\* lodash debounce(fn, 100): a call cancels the timer that is pending, if any,
\* and schedules a new one.
DebounceCallNoCancel(timers) == timers + 1
DebounceCallNotArmed(timers) == timers
DebounceCall(timers) == 1

\* The ids the response handler works on: segmentID and rootID, the clones
\* made when the call was issued.
SegmentIDLive(call) == call.objectId
RootIDLive(call) == call.rootObjectId
SegmentID(call) == call.seg
RootID(call) == call.root

\* The membership test of the response handler on the snapshotted root.
ResponseAcceptedNoCheck(call) == TRUE
ResponseAccepted(call) == RootID(call) \in rootSegments

\* The state the response handler puts the manifest chunk in.
StateAfterResponseStuck == "REQUESTING_CHILDREN"
StateAfterResponse == "FAILED"

\* visibleSegments3D after the response handler: the handler only accumulates,
\* the set is left to the flush.
VisibleAfterResponseApplied(call) ==
  (visibleSegments3D \cup Range(GraphChildren(call.seg))) \ {call.seg}
VisibleAfterResponse(call) == visibleSegments3D

\* The then-callback of chunkedGraph.getChildren(objectId) in updateChunkPriorities.
GetChildrenResolved(call) ==
  /\ BagIn(call, getChildrenCalls)
  /\ getChildrenCalls' = getChildrenCalls (-) SetToBag({call})
  /\ manifestState' = [manifestState EXCEPT ![call.seg] = StateAfterResponse]
  /\ IF ResponseAccepted(call)
     THEN /\ requestedChildChunks' =
               PendingAccumulate(requestedChildChunks, Uint64ToString(RootID(call)),
                                 GraphChildren(call.seg), SegmentID(call))
          /\ scheduledFlushes' = DebounceCall(scheduledFlushes)
          /\ batch' = Append(batch, [seg |-> call.seg, root |-> call.root,
                                     children |-> GraphChildren(call.seg),
                                     stable |-> callHistory[call.seg].atIssue
                                                /\ ~callHistory[call.seg].removed])
     ELSE UNCHANGED <<requestedChildChunks, scheduledFlushes, batch>>
  /\ lastStep' = [kind |-> "response", call |-> call,
                  removed |-> callHistory[call.seg].removed,
                  pendingBefore |-> requestedChildChunks,
                  flushesBefore |-> scheduledFlushes]
  /\ visibleSegments3D' = VisibleAfterResponse(call)
  /\ UNCHANGED <<nonMeshVars, chunkedGraph, iterationOrder, visibility, rootSegments,
                 segmentEquivalences, priorityTier, updateScheduled, numGetChildren,
                 numExternal, cycles, callHistory>>

\* The getChildren promise rejects (transport error): the call in
\* updateChunkPriorities chains a then-callback only, so no handler runs.
GetChildrenRejected(call) ==
  /\ BagIn(call, getChildrenCalls)
  /\ getChildrenCalls' = getChildrenCalls (-) SetToBag({call})
  /\ lastStep' = [kind |-> "rejected", call |-> call]
  /\ UNCHANGED <<nonMeshVars, chunkedGraph, iterationOrder, visibility, rootSegments, visibleSegments3D,
                 segmentEquivalences, manifestState, priorityTier, requestedChildChunks,
                 scheduledFlushes, updateScheduled, numGetChildren, numExternal,
                 cycles, callHistory, batch>>

\* ------------------------------------------------------------ the flush

\* The add loop without the link of the child to the root.
RECURSIVE ApplyAddsNoLink(_, _, _)
ApplyAddsNoLink(st, root, add) ==
  IF Len(add) = 0 THEN st
  ELSE ApplyAddsNoLink([visible |-> st.visible \cup {Head(add)},
                        eq |-> st.eq,
                        ops |-> Append(st.ops, [op |-> "add", root |-> root,
                                                seg |-> Head(add)])],
                       root, Tail(add))

\* The two loops of handleChildChunks over one entry whose root is present:
\* every add (with its link to the root), then every delete.  ops is the
\* history of the calls made on the shared sets.
RECURSIVE ApplyAdds(_, _, _)
ApplyAdds(st, root, add) ==
  IF Len(add) = 0 THEN st
  ELSE ApplyAdds([visible |-> st.visible \cup {Head(add)},
                  eq |-> EquivalenceLink(st.eq, root, Head(add)),
                  ops |-> st.ops \o <<[op |-> "add", root |-> root, seg |-> Head(add)],
                                      [op |-> "link", root |-> root, seg |-> Head(add)]>>],
                 root, Tail(add))

RECURSIVE ApplyDeletes(_, _, _)
ApplyDeletes(st, root, delete) ==
  IF Len(delete) = 0 THEN st
  ELSE ApplyDeletes([visible |-> st.visible \ {Head(delete)},
                     eq |-> st.eq,
                     ops |-> Append(st.ops, [op |-> "delete", root |-> root,
                                             seg |-> Head(delete)])],
                    root, Tail(delete))

\* The membership test of handleChildChunks on the parsed root.
\* The timer of the debounced function elapses: it is consumed by the one run
\* of the flush it starts.
DebounceFireRepeats(timers) == timers
DebounceFire(timers) == timers - 1

RootPresentNoCheck(rootTmp) == TRUE
RootPresent(rootTmp) == rootTmp \in rootSegments

\* The body of the loop of handleChildChunks for one entry.
ApplyEntryDeletesFirst(st, entry) ==
  LET rootTmp == Uint64ParseString(entry.key)
  IN IF ~RootPresent(rootTmp)
     THEN st
     ELSE ApplyAdds(ApplyDeletes(st, rootTmp, entry.delete), rootTmp, entry.add)
ApplyEntry(st, entry) ==
  LET rootTmp == Uint64ParseString(entry.key)
  IN IF ~RootPresent(rootTmp)
     THEN st
     ELSE ApplyDeletes(ApplyAdds(st, rootTmp, entry.add), rootTmp, entry.delete)

\* The loop of handleChildChunks over the entries, in insertion order.
RECURSIVE ApplyEntries(_, _)
ApplyEntries(st, pending) ==
  IF Len(pending) = 0 THEN st
  ELSE ApplyEntries(ApplyEntry(st, Head(pending)), Tail(pending))

\* requestedChildChunks.clear() at the end of handleChildChunks.
PendingAfterFlushKeepsSkipped(pending) ==
  SelectSeq(pending, LAMBDA e : ~RootPresent(Uint64ParseString(e.key)))
PendingAfterFlush(pending) == <<>>

\* MeshLayer.handleChildChunks, run by the timer of debouncedHandleChildChunks.
\* A change of visibleSegments3D schedules a recompute pass.
HandleChildChunks ==
  /\ scheduledFlushes > 0
  /\ scheduledFlushes' = DebounceFire(scheduledFlushes)
  /\ LET after == ApplyEntries([visible |-> visibleSegments3D,
                                eq |-> segmentEquivalences, ops |-> <<>>],
                               requestedChildChunks)
     IN /\ visibleSegments3D' = after.visible
        /\ segmentEquivalences' = after.eq
        /\ updateScheduled' = (updateScheduled \/ after.visible # visibleSegments3D)
        /\ lastStep' = [kind |-> "flush", batch |-> batch, ops |-> after.ops]
  /\ requestedChildChunks' = PendingAfterFlush(requestedChildChunks)
  /\ batch' = <<>>
  /\ UNCHANGED <<nonMeshVars, chunkedGraph, iterationOrder, visibility, rootSegments, manifestState, priorityTier,
                 getChildrenCalls, numGetChildren, numExternal, cycles, callHistory>>

\* ------------------------------------------------------------ the environment

\* The display layer selects a root: rootSegments.add(r) and
\* visibleSegments3D.add(r); the change schedules a recompute pass.
ExternalRootAdd(r) ==
  /\ numExternal < MaxExternal
  /\ r \notin rootSegments
  /\ rootSegments' = rootSegments \cup {r}
  /\ visibleSegments3D' = visibleSegments3D \cup {r}
  /\ updateScheduled' = TRUE
  /\ numExternal' = numExternal + 1
  /\ lastStep' = NoStep
  /\ UNCHANGED <<nonMeshVars, chunkedGraph, iterationOrder, visibility, segmentEquivalences, manifestState,
                 priorityTier, getChildrenCalls, requestedChildChunks, scheduledFlushes,
                 numGetChildren, cycles, callHistory, batch>>

\* The display layer removes a root: rootSegments.delete(r).
ExternalRootDelete(r) ==
  /\ numExternal < MaxExternal
  /\ r \in rootSegments
  /\ rootSegments' = rootSegments \ {r}
  /\ numExternal' = numExternal + 1
  /\ callHistory' =
       [s \in Segments |->
          IF \E c \in BagToSet(getChildrenCalls) : c.seg = s /\ c.root = r
          THEN [callHistory[s] EXCEPT !.removed = TRUE]
          ELSE callHistory[s]]
  /\ batch' = [i \in 1..Len(batch) |->
                 IF batch[i].root = r THEN [batch[i] EXCEPT !.stable = FALSE]
                 ELSE batch[i]]
  /\ lastStep' = NoStep
  /\ UNCHANGED <<nonMeshVars, chunkedGraph, iterationOrder, visibility, visibleSegments3D, segmentEquivalences,
                 manifestState, priorityTier, getChildrenCalls, requestedChildChunks,
                 scheduledFlushes, updateScheduled, numGetChildren, cycles>>

\* The visibility of the layer changes (the layer is hidden or shown); the
\* change schedules a recompute pass.
ExternalSetVisibility(v) ==
  /\ numExternal < MaxExternal
  /\ v # visibility
  /\ visibility' = v
  /\ updateScheduled' = TRUE
  /\ numExternal' = numExternal + 1
  /\ lastStep' = NoStep
  /\ UNCHANGED <<nonMeshVars, chunkedGraph, iterationOrder, rootSegments, visibleSegments3D, segmentEquivalences,
                 manifestState, priorityTier, getChildrenCalls, requestedChildChunks,
                 scheduledFlushes, numGetChildren, cycles, callHistory, batch>>

\* Any other chunk source or layer schedules a recompute pass (camera movement,
\* a finished download of another layer).
ExternalScheduleUpdate ==
  /\ ~updateScheduled
  /\ updateScheduled' = TRUE
  /\ lastStep' = NoStep
  /\ UNCHANGED <<nonMeshVars, chunkedGraph, iterationOrder, visibility, rootSegments, visibleSegments3D,
                 segmentEquivalences, manifestState, priorityTier, getChildrenCalls,
                 requestedChildChunks, scheduledFlushes, numGetChildren, numExternal,
                 cycles, callHistory, batch>>

\* ------------------------------------------------ the graph client (frontend)

\* Uint64 values of the selections: low and high 32-bit words.
GraphIds == {[low |-> 5, high |-> 0], [low |-> 6, high |-> 0]}

\* SegmentSelection values handed to the client: segment 6 under root 5, and
\* root 5 itself.
Selections ==
  [segmentId : GraphIds, rootId : {[low |-> 5, high |-> 0]}, position : {<<1, 2, 3>>}]
SelectionLists == {<<>>} \cup {<<x>> : x \in Selections}

\* The bodies the graph service answers with, as 32-bit words: one packed id
\* for root and merge; for split a packed array, possibly cut short.
IdResponses == {<<5, 0>>, <<6, 1>>}
ArrayResponses == {<<>>, <<5, 0>>, <<5, 0, 6>>, <<5, 0, 6, 0>>}
TransportErrors == {"HTTP_404", "HTTP_500"}

\* String(id) of a Uint64 below 2^32.
Uint64String(id) == Uint64ToString(id.low)

\* [String(selection.segmentId), ...selection.position]
SelectionJson(selection) == <<Uint64String(selection.segmentId)>> \o selection.position

RECURSIVE MapSelectionJson(_)
MapSelectionJson(list) ==
  IF Len(list) = 0 THEN <<>>
  ELSE <<SelectionJson(Head(list))>> \o MapSelectionJson(Tail(list))

\* new Uint64(uint32[0], uint32[1])
DecodeId(words) == [low |-> words[1], high |-> words[2]]

\* The loop of splitSegments over the packed array of uint32.length / 2 ids.
RECURSIVE DecodeIdArray(_)
DecodeIdArray(words) ==
  IF Len(words) < 2 THEN <<>>
  ELSE <<[low |-> words[1], high |-> words[2]]>> \o DecodeIdArray(SubSeq(words, 3, Len(words)))

\* A promise: pending, resolved with a value or rejected with an error.
Pending == [state |-> "pending", value |-> "none"]
Resolved(v) == [state |-> "resolved", value |-> v]
Rejected(e) == [state |-> "rejected", value |-> e]

\* getRoot with url === '': Promise.resolve(selection.segmentId).
GetRootNoServerReturnsRoot(selection) == Resolved(selection.rootId)
GetRootNoServer(selection) == Resolved(selection.segmentId)

\* mergeSegments with url === '': Promise.reject(GRAPH_SERVER_NOT_SPECIFIED).
MergeSegmentsNoServerResolves(first, second) == Resolved(first.rootId)
MergeSegmentsNoServer(first, second) == Rejected("GRAPH_SERVER_NOT_SPECIFIED")

\* splitSegments with url === '': Promise.reject(GRAPH_SERVER_NOT_SPECIFIED).
SplitSegmentsNoServer(first, second) == Rejected("GRAPH_SERVER_NOT_SPECIFIED")

\* The then-callbacks: the value the promise settles with on a response.
OnResponse(op, words) ==
  IF op = "split"
  THEN IF Len(words) % 2 # 0
       THEN Rejected("RangeError")   \* new Array(uint32.length / 2) throws
       ELSE Resolved(DecodeIdArray(words))
  ELSE Resolved(DecodeId(words))

\* The catch-callbacks: log the error, return Promise.reject(e).
OnTransportErrorSwallowed(e) == Resolved("undefined")
OnTransportError(e) == Rejected(e)

\* A call without a graph server: settled at once, no request opened.
CallSettled(op, input, promise) ==
  /\ graphCalls' = Append(graphCalls,
       [op |-> op, input |-> input, promise |-> promise, requests |-> 0,
        failedWith |-> "none", noServer |-> TRUE])
  /\ UNCHANGED httpRequests

\* A call with a graph server: sendHttpJsonPostRequest(openHttpRequest(url, 'POST'), body).
CallSent(op, input, endpoint, body) ==
  /\ graphCalls' = Append(graphCalls,
       [op |-> op, input |-> input, promise |-> Pending, requests |-> 1,
        failedWith |-> "none", noServer |-> FALSE])
  /\ httpRequests' = httpRequests \cup
       {[call |-> Len(graphCalls) + 1, url |-> <<graphurl, endpoint>>, body |-> body]}

\* ChunkedGraphLayer.getRoot
GetRoot(selection) ==
  /\ Len(graphCalls) < MaxGraphCalls
  /\ IF graphurl = ""
     THEN CallSettled("getRoot", <<selection>>, GetRootNoServer(selection))
     ELSE CallSent("getRoot", <<selection>>, "/1.0/graph/root", SelectionJson(selection))
  /\ UNCHANGED <<nonGraphVars, graphurl>>

\* ChunkedGraphLayer.mergeSegments
MergeSegments(first, second) ==
  /\ Len(graphCalls) < MaxGraphCalls
  /\ IF graphurl = ""
     THEN CallSettled("merge", <<first, second>>, MergeSegmentsNoServer(first, second))
     ELSE CallSent("merge", <<first, second>>, "/1.0/graph/merge",
                   <<SelectionJson(first), SelectionJson(second)>>)
  /\ UNCHANGED <<nonGraphVars, graphurl>>

\* ChunkedGraphLayer.splitSegments
SplitSegments(first, second) ==
  /\ Len(graphCalls) < MaxGraphCalls
  /\ IF graphurl = ""
     THEN CallSettled("split", <<first, second>>, SplitSegmentsNoServer(first, second))
     ELSE CallSent("split", <<first, second>>, "/1.0/graph/split",
                   [sources |-> MapSelectionJson(first), sinks |-> MapSelectionJson(second)])
  /\ UNCHANGED <<nonGraphVars, graphurl>>

\* The request of a call completes with a response body: the then-callback runs.
HttpResponse(req, words) ==
  /\ req \in httpRequests
  /\ httpRequests' = httpRequests \ {req}
  /\ graphCalls' = [graphCalls EXCEPT ![req.call].promise =
                      OnResponse(graphCalls[req.call].op, words)]
  /\ UNCHANGED <<nonGraphVars, graphurl>>

\* The request of a call fails with a transport error: the catch-callback runs.
HttpError(req, e) ==
  /\ req \in httpRequests
  /\ httpRequests' = httpRequests \ {req}
  /\ graphCalls' = [graphCalls EXCEPT ![req.call].promise = OnTransportError(e),
                                      ![req.call].failedWith = e]
  /\ UNCHANGED <<nonGraphVars, graphurl>>

\* No graph client call was made.
GraphIdle ==
  /\ graphurl = ""
  /\ graphCalls = <<>>
  /\ httpRequests = {}

GraphInit ==
  /\ graphurl \in {"", "https://graph"}
  /\ graphCalls = <<>>
  /\ httpRequests = {}

\* ------------------------------------- the chunk-graph leaf download (backend)

\* Root keys of chunk.mappings.
RootKeys == {"r1", "r2", "r3"}

\* How a sub-request fails: the fetch, or decodeChunkedGraphChunk on the response.
SubFailures == {"fetchFailed", "decodeFailed"}

\* Promise.all over the sub-requests, seen when one of them settles: rejected
\* with the first rejection, fulfilled once all are fulfilled.
PromiseAllSwallowing(settled, subs) ==
  IF \A k \in DOMAIN subs : subs[k] # "pending" THEN "succeeded" ELSE settled
PromiseAll(settled, subs) ==
  IF settled # "pending" THEN settled
  ELSE IF \E k \in DOMAIN subs : subs[k] \in SubFailures THEN "failed"
  ELSE IF \A k \in DOMAIN subs : subs[k] \in {"none", "succeeded"} THEN "succeeded"
  ELSE "pending"

\* The body of the loop over chunk.mappings.entries(): a request is pushed for
\* an entry whose value is null, and nothing for any other entry.
SubRequestAlways(val) == "pending"
SubRequest(val) == IF val = "null" THEN "pending" ELSE "none"

\* PrecomputedChunkedGraphSource.download: one request per root key whose
\* mapping is null, joined by Promise.all.
LeafDownload ==
  /\ downloadPromise = "idle"
  /\ promises' = [k \in RootKeys |-> SubRequest(mappings[k])]
  /\ downloadPromise' = PromiseAll("pending", promises')
  /\ UNCHANGED <<nonLeafVars, mappings>>

\* The response of one sub-request arrives and decodeChunkedGraphChunk stores
\* the root's mapping in the chunk.
LeafSubRequestSucceeded(key) ==
  /\ promises[key] = "pending"
  /\ promises' = [promises EXCEPT ![key] = "succeeded"]
  /\ mappings' = [mappings EXCEPT ![key] = "mapped"]
  /\ downloadPromise' = PromiseAll(downloadPromise, promises')
  /\ UNCHANGED nonLeafVars

\* One sub-request fails: the request itself, or decoding its response.
LeafSubRequestFailed(key, failure) ==
  /\ promises[key] = "pending"
  /\ promises' = [promises EXCEPT ![key] = failure]
  /\ downloadPromise' = PromiseAll(downloadPromise, promises')
  /\ UNCHANGED <<nonLeafVars, mappings>>

\* No leaf download was started.
LeafIdle ==
  /\ mappings = [k \in RootKeys |-> "mapped"]
  /\ promises = [k \in RootKeys |-> "none"]
  /\ downloadPromise = "idle"

LeafInit ==
  /\ mappings \in [RootKeys -> {"null", "mapped"}]
  /\ promises = [k \in RootKeys |-> "none"]
  /\ downloadPromise = "idle"

\* ------------------------------------------- the fragment decoder (backend)

\* An optional argument that is not passed.
Undefined == -1

\* A typed array field that is null, and the RangeError of a typed array
\* constructor.
Null == [buffer |-> "null", byteOffset |-> 0, length |-> 0]
RangeError == [buffer |-> "RangeError", byteOffset |-> 0, length |-> 0]

\* The four bytes of a 32-bit word, least significant first.
WordBytes(w) ==
  <<w % 256, (w \div 256) % 256, (w \div 65536) % 256, (w \div 16777216) % 256>>

RECURSIVE EncodeWords(_)
EncodeWords(ws) ==
  IF Len(ws) = 0 THEN <<>> ELSE WordBytes(Head(ws)) \o EncodeWords(Tail(ws))

RECURSIVE Flatten(_)
Flatten(vs) == IF Len(vs) = 0 THEN <<>> ELSE Head(vs) \o Flatten(Tail(vs))

\* The mesh fragment format: uint32 number of vertices, three float32 per
\* vertex (kept as their 32-bit patterns), then the uint32 indices, all little
\* endian.
EncodeFragment(vertices, indices) ==
  WordBytes(Len(vertices)) \o EncodeWords(Flatten(vertices)) \o EncodeWords(indices)

\* DataView.getUint32(byteOffset, littleEndian).
GetUint32(data, byteOffset, littleEndian) ==
  LET b(i) == data[byteOffset + i]
  IN IF littleEndian
     THEN b(1) + 256 * b(2) + 65536 * b(3) + 16777216 * b(4)
     ELSE b(4) + 256 * b(3) + 65536 * b(2) + 16777216 * b(1)

\* new Float32Array / Uint32Array(data, byteOffset, length): a view, or the
\* RangeError of the constructor.  Without a length the view runs to the end.
TypedArray32(data, byteOffset, length) ==
  IF byteOffset % 4 # 0 \/ byteOffset > Len(data) THEN RangeError
  ELSE IF length = Undefined
       THEN IF (Len(data) - byteOffset) % 4 # 0 THEN RangeError
            ELSE [buffer |-> "response", byteOffset |-> byteOffset,
                  length |-> (Len(data) - byteOffset) \div 4]
       ELSE IF byteOffset + 4 * length > Len(data) THEN RangeError
            ELSE [buffer |-> "response", byteOffset |-> byteOffset, length |-> length]

\* The elements of a view, read in the byte order of the platform.
Elements(data, view) ==
  [i \in 1..view.length |->
     GetUint32(data, view.byteOffset + 4 * (i - 1), ENDIANNESS = "LITTLE")]

\* convertEndian32(array, endianness): swaps the bytes of every element in
\* place when the data's byte order is not the platform's.
ConvertEndian32Never(data, view, endianness) == data
ConvertEndian32(data, view, endianness) ==
  IF endianness = ENDIANNESS THEN data
  ELSE [i \in 1..Len(data) |->
          IF i > view.byteOffset /\ i <= view.byteOffset + 4 * view.length
          THEN LET k == (i - 1 - view.byteOffset) % 4
               IN data[i - k + (3 - k)]
          ELSE data[i]]

\* The check of decodeVertexPositionsAndIndices on the number of indices.
IndexCountAcceptedAlways(numIndices, verticesPerPrimitive) == TRUE
IndexCountAccepted(numIndices, verticesPerPrimitive) ==
  numIndices % verticesPerPrimitive = 0

\* decodeVertexPositionsAndIndices: the chunk and the buffer afterwards, and
\* the error thrown, if any.
DecodeVertexPositionsAndIndices(chunk, verticesPerPrimitive, data, endianness, vertexByteOffset, numVertices, indexByteOffsetArg, numPrimitives) ==
  LET vertexPositions == TypedArray32(data, vertexByteOffset, numVertices * 3)
  IN IF vertexPositions = RangeError
     THEN [chunk |-> chunk, data |-> data, error |-> "RangeError"]
     ELSE
       LET data1 == ConvertEndian32(data, vertexPositions, endianness)
           indexByteOffset ==
             IF indexByteOffsetArg = Undefined
             THEN vertexByteOffset + 12 * numVertices
             ELSE indexByteOffsetArg
           numIndices ==
             IF numPrimitives # Undefined
             THEN numPrimitives * verticesPerPrimitive
             ELSE Undefined
           indices == TypedArray32(data1, indexByteOffset, numIndices)
       IN IF indices = RangeError
          THEN [chunk |-> chunk, data |-> data1, error |-> "RangeError"]
          ELSE IF ~IndexCountAccepted(indices.length, verticesPerPrimitive)
          THEN [chunk |-> chunk, data |-> data1, error |-> "Error"]
          ELSE
            LET data2 == ConvertEndian32(data1, indices, endianness)
            IN [chunk |-> [chunk EXCEPT !.vertexPositions = vertexPositions,
                                        !.indices = indices],
                data |-> data2, error |-> "none"]

\* computeVertexNormals: a new Float32Array of the length of the positions, in
\* a buffer of its own (the values are not modelled).
ComputeVertexNormals(positions, indices) ==
  [buffer |-> "normals", byteOffset |-> 0, length |-> positions.length]

\* decodeTriangleVertexPositionsAndIndices
DecodeTriangleVertexPositionsAndIndices(chunk, data, endianness, vertexByteOffset, numVertices, indexByteOffset, numTriangles) ==
  LET r == DecodeVertexPositionsAndIndices(chunk, 3, data, endianness, vertexByteOffset,
                                           numVertices, indexByteOffset, numTriangles)
  IN IF r.error # "none" THEN r
     ELSE [r EXCEPT !.chunk.vertexNormals =
                      ComputeVertexNormals(r.chunk.vertexPositions, r.chunk.indices)]

\* decodeFragmentChunk
DecodeFragmentChunk(chunk, data) ==
  IF Len(data) < 4 THEN [chunk |-> chunk, data |-> data, error |-> "RangeError"]
  ELSE LET numVertices == GetUint32(data, 0, TRUE)
       IN DecodeTriangleVertexPositionsAndIndices(chunk, data, "LITTLE", 4, numVertices,
                                                  Undefined, Undefined)

\* The encoded fragments the server answers with: vertex lists, index lists and
\* stray bytes after the last index.
VertexLists == {<<>>, <<<<1, 258, 0>>>>, <<<<1, 258, 0>>, <<0, 2, 65536>>>>}
IndexLists == UNION {[1..n -> {0, 258}] : n \in 0..MaxIndices}
Trailing == {<<>>, <<7>>}
BufferIds == {"b1", "b2", "b3"}

\* The fragment download: not started, succeeded, failed with the error the
\* decoder threw, or serialized; and the verticesPerPrimitive the decoder ran with.
NotDownloaded == [state |-> "none", error |-> "none", verticesPerPrimitive |-> 0]

EmptyChunk == [vertexPositions |-> Null, indices |-> Null, vertexNormals |-> Null]
EmptyMsg == [objectKey |-> "none", vertexPositions |-> Null, indices |-> Null,
             vertexNormals |-> Null]

\* The then-callback of a fragment download: the decoder runs on the response.
\* With 3 vertices per primitive this is PrecomputedMeshSource.downloadFragment;
\* with 2 it is decodeVertexPositionsAndIndices called for edges, without a count.
Decode(verticesPerPrimitive) ==
  /\ downloadResult = NotDownloaded
  /\ LET r == IF verticesPerPrimitive = 3
              THEN DecodeFragmentChunk(fragmentChunk, response)
              ELSE DecodeVertexPositionsAndIndices(
                     fragmentChunk, verticesPerPrimitive, response, "LITTLE", 4,
                     GetUint32(response, 0, TRUE), Undefined, Undefined)
     IN /\ fragmentChunk' = r.chunk
        /\ response' = r.data
        /\ downloadResult' =
             [state |-> IF r.error # "none" THEN "failed" ELSE "succeeded",
              error |-> r.error, verticesPerPrimitive |-> verticesPerPrimitive]
  /\ UNCHANGED <<nonFragmentVars, ENDIANNESS, encoded, transfers, msg>>

\* downloadFragment of another data source: the three arrays may share buffers
\* in any way.
DownloadFragmentOther(bv, bi, bn) ==
  /\ downloadResult = NotDownloaded
  /\ fragmentChunk' = [vertexPositions |-> [buffer |-> bv, byteOffset |-> 0, length |-> 3],
                       indices |-> [buffer |-> bi, byteOffset |-> 12, length |-> 3],
                       vertexNormals |-> [buffer |-> bn, byteOffset |-> 24, length |-> 3]]
  /\ downloadResult' = [NotDownloaded EXCEPT !.state = "succeeded"]
  /\ UNCHANGED <<nonFragmentVars, ENDIANNESS, response, encoded, transfers, msg>>

\* The transfer list after serialize pushed the buffers of the three arrays.
TransferListNoDedup(list, chunk) ==
  list \o <<chunk.vertexPositions.buffer, chunk.indices.buffer, chunk.vertexNormals.buffer>>
TransferList(list, chunk) ==
  LET vertexPositionsBuffer == chunk.vertexPositions.buffer
      indicesBuffer == chunk.indices.buffer
      vertexNormalsBuffer == chunk.vertexNormals.buffer
      t1 == Append(list, vertexPositionsBuffer)
      t2 == IF indicesBuffer # vertexPositionsBuffer THEN Append(t1, indicesBuffer) ELSE t1
  IN IF vertexNormalsBuffer # vertexPositionsBuffer /\ vertexNormalsBuffer # indicesBuffer
     THEN Append(t2, vertexNormalsBuffer)
     ELSE t2

\* The fields of the chunk after serialize.
ChunkAfterSerializeKeepsNormals(chunk) ==
  [chunk EXCEPT !.vertexPositions = Null, !.indices = Null]
ChunkAfterSerialize(chunk) == EmptyChunk

\* FragmentChunk.serialize of a downloaded fragment chunk.
Serialize ==
  /\ downloadResult.state = "succeeded"
  /\ fragmentChunk.vertexNormals # Null
  /\ msg' = [objectKey |-> "manifestChunk.key",
             vertexPositions |-> fragmentChunk.vertexPositions,
             indices |-> fragmentChunk.indices,
             vertexNormals |-> fragmentChunk.vertexNormals]
  /\ transfers' = TransferList(transfers, fragmentChunk)
  /\ fragmentChunk' = ChunkAfterSerialize(fragmentChunk)
  /\ downloadResult' = [downloadResult EXCEPT !.state = "serialized"]
  /\ UNCHANGED <<nonFragmentVars, ENDIANNESS, response, encoded>>

\* No fragment was downloaded.
FragmentIdle ==
  /\ ENDIANNESS = "LITTLE"
  /\ response = <<>>
  /\ encoded = [vertices |-> <<>>, indices |-> <<>>, trailing |-> <<>>]
  /\ fragmentChunk = EmptyChunk
  /\ downloadResult = NotDownloaded
  /\ transfers = <<>>
  /\ msg = EmptyMsg

FragmentInit ==
  /\ ENDIANNESS \in {"LITTLE", "BIG"}
  /\ encoded \in [vertices : VertexLists, indices : IndexLists, trailing : Trailing]
  /\ response = EncodeFragment(encoded.vertices, encoded.indices) \o encoded.trailing
  /\ fragmentChunk = EmptyChunk
  /\ downloadResult = NotDownloaded
  /\ transfers = <<>>
  /\ msg = EmptyMsg

\* ------------------------------------------------ the chunk maps (backend)

\* The clip bounds of the layers that show object 5, and the fragment ids the
\* manifests list (fragment ids are arbitrary strings of the manifest JSON).
ClipBounds ==
  {NoBounds, [center |-> <<1, 1, 1>>, size |-> <<2, 2, 2>>],
   [center |-> <<1, 1, 1>>, size |-> <<3, 3, 3>>]}
FragmentIds ==
  {<<"f">>, <<"g">>,
   <<"1", ",", "1", ",", "1", ":", "2", ",", "2", ",", "2", "/", "f">>}

\* Map.get(key) on a chunk map: the chunks stored under the key (none or one).
ChunksGet(map, key) == {c \in map : c.key = key}

\* MeshSource.getChunk
GetChunk(objectId, clipBounds) ==
  LET key == GetObjectKey(objectId, clipBounds)
  IN /\ ChunksGet(chunks, key) = {}
     /\ chunks' = chunks \cup {[key |-> key, objectId |-> objectId, clipBounds |-> clipBounds]}
     /\ UNCHANGED <<nonSourceVars, fragmentSourceChunks, getFragmentChunkCalls>>

\* MeshSource.getFragmentChunk: the chunk stored under the key, or a new chunk
\* initialized with the key, the manifest chunk and the fragment id.
GetFragmentChunk(manifestChunk, fragmentId) ==
  LET key == FragmentKey(manifestChunk.key, fragmentId)
      found == ChunksGet(fragmentSourceChunks, key)
      chunk == IF found = {}
               THEN [key |-> key, manifestChunk |-> manifestChunk.key,
                     fragmentId |-> fragmentId]
               ELSE CHOOSE c \in found : TRUE
  IN /\ Cardinality(getFragmentChunkCalls) < MaxFragmentCalls
     /\ manifestChunk \in chunks
     /\ fragmentSourceChunks' = fragmentSourceChunks \cup {chunk}
     /\ getFragmentChunkCalls' = getFragmentChunkCalls \cup
          {[manifestKey |-> manifestChunk.key, fragmentId |-> fragmentId, chunk |-> chunk]}
     /\ UNCHANGED <<nonSourceVars, chunks>>

\* No chunk was requested.
SourceIdle ==
  /\ chunks = {}
  /\ fragmentSourceChunks = {}
  /\ getFragmentChunkCalls = {}

\* --------------------------------------------- the manifest download (backend)

\* JSON values of a manifest response.
JsonString(str) == [t |-> "string", str |-> str]
JsonScalar(t) == [t |-> t]
JsonArray(elems) == [t |-> "array", elems |-> elems]
JsonObject(props) == [t |-> "object", props |-> props]

\* The value of a property that is missing, and of a field never assigned.
JsonUndefined == JsonScalar("undefined")

\* The responses of the server: values that are no objects, objects without a
\* 'fragments' property, and objects with every kind of value as 'fragments'.
ManifestResponses ==
  LET number == JsonScalar("number")
      null == JsonScalar("null")
      fragmentsValues ==
        {JsonArray(<<>>), JsonArray(<<JsonString("a")>>),
         JsonArray(<<JsonString("a"), JsonString("b")>>),
         JsonArray(<<JsonString("a"), number>>), JsonArray(<<null>>),
         JsonString("a"), number, null, JsonObject({})}
  IN {null, number, JsonString("a"), JsonArray(<<JsonString("a")>>), JsonObject({})}
     \cup {JsonObject({[name |-> "fragments", value |-> v]}) : v \in fragmentsValues}
     \cup {JsonObject({[name |-> "fragmentIds", value |-> JsonArray(<<JsonString("a")>>)]})}

\* A verifier returns its value or throws.
Returned(v) == [threw |-> FALSE, value |-> v]
Threw == [threw |-> TRUE, value |-> JsonUndefined]

\* verifyObject: an object that is neither null nor an array.
VerifyObject(obj) == IF obj.t = "object" THEN Returned(obj) ELSE Threw

\* verifyStringArray: an array all of whose elements are strings.
VerifyStringArrayAny(a) == Returned(a)
VerifyStringArray(a) ==
  IF a.t = "array" /\ \A i \in 1..Len(a.elems) : a.elems[i].t = "string"
  THEN Returned(a)
  ELSE Threw

\* obj[propertyName]
PropertyOf(obj, propertyName) ==
  IF \E p \in obj.props : p.name = propertyName
  THEN (CHOOSE p \in obj.props : p.name = propertyName).value
  ELSE JsonUndefined

\* decodeJsonManifestChunk: the chunk afterwards and whether the decoder threw.
DecodeJsonManifestChunk(chunk, resp, keysPropertyName) ==
  IF VerifyObject(resp).threw THEN [chunk |-> chunk, threw |-> TRUE]
  ELSE LET keys == VerifyStringArray(PropertyOf(resp, keysPropertyName))
       IN IF keys.threw THEN [chunk |-> chunk, threw |-> TRUE]
          ELSE [chunk |-> [chunk EXCEPT !.fragmentIds = keys.value], threw |-> FALSE]

\* decodeManifestChunk
DecodeManifestChunk(chunk, resp) == DecodeJsonManifestChunk(chunk, resp, "fragments")

\* A new ManifestChunk: fragmentIds is declared and not assigned.
NewManifestChunk == [state |-> "NEW", fragmentIds |-> JsonUndefined]

\* The chunk queue starts PrecomputedMeshSource.download for the chunk.
ManifestDownloadStart(o) ==
  /\ manifestChunks[o].state = "NEW"
  /\ manifestChunks' = [manifestChunks EXCEPT ![o].state = "DOWNLOADING"]
  /\ UNCHANGED <<nonManifestVars, manifestDownloads>>

\* The then-callback of PrecomputedMeshSource.download: decodeManifestChunk runs
\* on the response; the chunk manager calls downloadSucceeded when it returned
\* and downloadFailed when it threw.
ManifestResponse(o, resp) ==
  /\ manifestChunks[o].state = "DOWNLOADING"
  /\ LET r == DecodeManifestChunk(manifestChunks[o], resp)
     IN /\ manifestChunks' =
             [manifestChunks EXCEPT ![o] =
                [r.chunk EXCEPT !.state =
                   IF r.threw THEN "FAILED" ELSE "SYSTEM_MEMORY_WORKER"]]
        /\ manifestDownloads' =
             [manifestDownloads EXCEPT ![o] =
                [outcome |-> IF r.threw THEN "decodeError" ELSE "decoded",
                 response |-> resp]]
  /\ UNCHANGED nonManifestVars

\* sendHttpRequest rejects: the then-callback does not run, the chunk manager
\* calls downloadFailed.
ManifestTransportError(o) ==
  /\ manifestChunks[o].state = "DOWNLOADING"
  /\ manifestChunks' = [manifestChunks EXCEPT ![o].state = "FAILED"]
  /\ manifestDownloads' =
       [manifestDownloads EXCEPT ![o] =
          [outcome |-> "transportError", response |-> JsonUndefined]]
  /\ UNCHANGED nonManifestVars

\* ManifestChunk.serialize, when the chunk manager hands the chunk on to the
\* frontend and to the GPU: the message takes fragmentIds, the chunk keeps it.
ManifestSerialize(o) ==
  /\ manifestChunks[o].state \in {"SYSTEM_MEMORY_WORKER", "SYSTEM_MEMORY"}
  /\ manifestChunks' =
       [manifestChunks EXCEPT ![o].state =
          IF manifestChunks[o].state = "SYSTEM_MEMORY_WORKER"
          THEN "SYSTEM_MEMORY" ELSE "GPU_MEMORY"]
  /\ UNCHANGED <<nonManifestVars, manifestDownloads>>

\* No manifest was downloaded.
ManifestIdle ==
  /\ manifestChunks = [o \in RootCandidates |-> NewManifestChunk]
  /\ manifestDownloads =
       [o \in RootCandidates |-> [outcome |-> "none", response |-> JsonUndefined]]

\* The mesh layer with nothing selected.
MeshIdle ==
  /\ MeshInit
  /\ iterationOrder = <<1, 5, 6, 7>>
  /\ chunkedGraph
  /\ rootSegments = {}

\* ------------------------------------------------------------ specification

Init ==
  /\ MeshInit /\ GraphIdle /\ LeafIdle /\ FragmentIdle /\ SourceIdle /\ ManifestIdle
  /\ iterationOrder = <<1, 5, 6, 7>>

Next ==
  \/ UpdateChunkPriorities
  \/ \E s \in Segments : ChunkDownloadStart(s)
  \/ \E s \in Segments : ManifestDownloadSucceeded(s)
  \/ \E s \in Segments : ManifestDownloadFailed(s)
  \/ \E call \in BagToSet(getChildrenCalls) : GetChildrenResolved(call)
  \/ \E call \in BagToSet(getChildrenCalls) : GetChildrenRejected(call)
  \/ HandleChildChunks
  \/ \E r \in RootCandidates : ExternalRootAdd(r)
  \/ \E r \in RootCandidates : ExternalRootDelete(r)
  \/ \E v \in {"NEG_INF", "VISIBLE"} : ExternalSetVisibility(v)
  \/ ExternalScheduleUpdate

Spec == Init /\ [][Next]_vars

\* The mesh layer with both roots selected for good, a visibility that may also
\* be finite (prefetch), and the chunk manager moving loaded manifests on.
InitPass == Init /\ rootSegments = RootCandidates

NextPass ==
  \/ UpdateChunkPriorities
  \/ \E s \in Segments : ChunkDownloadStart(s)
  \/ \E s \in Segments : ManifestDownloadSucceeded(s)
  \/ \E s \in Segments : ManifestDownloadFailed(s)
  \/ \E s \in Segments : ChunkPromotion(s)
  \/ \E call \in BagToSet(getChildrenCalls) : GetChildrenResolved(call)
  \/ \E call \in BagToSet(getChildrenCalls) : GetChildrenRejected(call)
  \/ HandleChildChunks
  \/ \E v \in {"NEG_INF", "PREFETCH", "VISIBLE"} : ExternalSetVisibility(v)
  \/ ExternalScheduleUpdate

SpecPass == InitPass /\ [][NextPass]_vars

\* The timer of the debounce elapses: the step of HandleChildChunks, as seen on
\* the timer.
TimerElapses ==
  /\ scheduledFlushes > 0
  /\ scheduledFlushes' = DebounceFire(scheduledFlushes)

\* Spec with the scheduling of the event loop: a recompute pass that the chunk
\* manager has scheduled runs, and the timer of the debounce, once armed,
\* elapses and runs the flush.
SpecFair ==
  Spec /\ WF_vars(UpdateChunkPriorities) /\ WF_scheduledFlushes(TimerElapses)

\* The mesh layer with a graph client and both roots selected for good, under
\* every iteration order.
InitSnapshot ==
  /\ MeshInit /\ GraphIdle /\ LeafIdle /\ FragmentIdle /\ SourceIdle /\ ManifestIdle
  /\ chunkedGraph
  /\ rootSegments = RootCandidates

NextSnapshot ==
  \/ UpdateChunkPriorities
  \/ \E s \in Segments : ChunkDownloadStart(s)
  \/ \E s \in Segments : ManifestDownloadSucceeded(s)
  \/ \E s \in Segments : ManifestDownloadFailed(s)
  \/ \E call \in BagToSet(getChildrenCalls) : GetChildrenResolved(call)
  \/ \E call \in BagToSet(getChildrenCalls) : GetChildrenRejected(call)
  \/ HandleChildChunks
  \/ \E r \in RootCandidates : ExternalRootDelete(r)
  \/ ExternalScheduleUpdate

SpecSnapshot == InitSnapshot /\ [][NextSnapshot]_vars

\* The graph client alone.
InitGraph == MeshIdle /\ GraphInit /\ LeafIdle /\ FragmentIdle /\ SourceIdle /\ ManifestIdle

NextGraph ==
  \/ \E selection \in Selections : GetRoot(selection)
  \/ \E first, second \in Selections : MergeSegments(first, second)
  \/ \E first, second \in SelectionLists : SplitSegments(first, second)
  \/ \E req \in httpRequests :
       \E words \in (IF graphCalls[req.call].op = "split"
                        THEN ArrayResponses ELSE IdResponses) :
         HttpResponse(req, words)
  \/ \E req \in httpRequests : \E e \in TransportErrors : HttpError(req, e)

SpecGraph == InitGraph /\ [][NextGraph]_vars

\* The chunk-graph leaf download alone.
InitLeaf == MeshIdle /\ GraphIdle /\ LeafInit /\ FragmentIdle /\ SourceIdle /\ ManifestIdle

NextLeaf ==
  \/ LeafDownload
  \/ \E key \in RootKeys : LeafSubRequestSucceeded(key)
  \/ \E key \in RootKeys : \E failure \in SubFailures : LeafSubRequestFailed(key, failure)

SpecLeaf == InitLeaf /\ [][NextLeaf]_vars

\* The fragment decoder and serializer alone.
InitFragment == MeshIdle /\ GraphIdle /\ LeafIdle /\ FragmentInit /\ SourceIdle /\ ManifestIdle

NextFragment ==
  \/ \E verticesPerPrimitive \in {2, 3} : Decode(verticesPerPrimitive)
  \/ \E bv, bi, bn \in BufferIds : DownloadFragmentOther(bv, bi, bn)
  \/ Serialize

SpecFragment == InitFragment /\ [][NextFragment]_vars

\* The chunk maps of the mesh source alone.
InitSource == MeshIdle /\ GraphIdle /\ LeafIdle /\ FragmentIdle /\ SourceIdle /\ ManifestIdle

NextSource ==
  \/ \E clipBounds \in ClipBounds : GetChunk(5, clipBounds)
  \/ \E manifestChunk \in chunks : \E fragmentId \in FragmentIds :
       GetFragmentChunk(manifestChunk, fragmentId)

SpecSource == InitSource /\ [][NextSource]_vars

\* The manifest download alone.
InitManifest == MeshIdle /\ GraphIdle /\ LeafIdle /\ FragmentIdle /\ SourceIdle /\ ManifestIdle

NextManifest ==
  \/ \E o \in RootCandidates : ManifestDownloadStart(o)
  \/ \E o \in RootCandidates : \E resp \in ManifestResponses : ManifestResponse(o, resp)
  \/ \E o \in RootCandidates : ManifestTransportError(o)
  \/ \E o \in RootCandidates : ManifestSerialize(o)

SpecManifest == InitManifest /\ [][NextManifest]_vars

\* ------------------------------------------------------ claims: definitions

\* Number of outstanding getChildren calls for the manifest of segment s.
CallsFor(s) ==
  BagCardinality([c \in {d \in BagToSet(getChildrenCalls) : d.seg = s} |->
                    getChildrenCalls[c]])

\* The calls the flush that ran last made on the shared sets, and the
\* responses it flushed.
FlushRan == lastStep.kind = "flush"
FlushOps == IF FlushRan THEN lastStep.ops ELSE <<>>
FlushBatch == IF FlushRan THEN lastStep.batch ELSE <<>>
FlushDeleted == {FlushOps[i].seg : i \in {j \in 1..Len(FlushOps) : FlushOps[j].op = "delete"}}

\* Segment s was added again, under another root than r, after a delete in the flush.
ReAddedUnderOtherRoot(s, r) ==
  \E i, j \in 1..Len(FlushOps) :
    /\ i < j
    /\ FlushOps[i].op = "delete" /\ FlushOps[i].seg = s
    /\ FlushOps[j].op = "add" /\ FlushOps[j].seg = s /\ FlushOps[j].root # r

\* C1 (as stated): after the flush, for every flushed response (s, r, C) whose
\* root r was in rootSegments from the getChildren call on: visibleSegments3D
\* contains every child in C other than s, does not contain s, and
\* segmentEquivalences links r to every child in C.
C1_EndToEndAsStated ==
  \A i \in 1..Len(FlushBatch) :
    LET b == FlushBatch[i]
    IN b.stable =>
         /\ (Range(b.children) \ {b.seg}) \subseteq visibleSegments3D
         /\ b.seg \notin visibleSegments3D
         /\ \A c \in Range(b.children) : Linked(segmentEquivalences, b.root, c)

\* C1 (amended): as C1, except that a child which is itself on a delete list of
\* the flushed batch (its own children response was accumulated before the
\* flush) is not required to be visible, and s may be visible when a later
\* entry of another root added it again.
C1_EndToEnd ==
  \A i \in 1..Len(FlushBatch) :
    LET b == FlushBatch[i]
    IN b.stable =>
         /\ (Range(b.children) \ ({b.seg} \cup FlushDeleted)) \subseteq visibleSegments3D
         /\ b.seg \notin visibleSegments3D \/ ReAddedUnderOtherRoot(b.seg, b.root)
         /\ \A c \in Range(b.children) : Linked(segmentEquivalences, b.root, c)

\* C1 witness: the flush of the response (5, root 5, children 6 and 7) ran.
C1_Witness ==
  /\ FlushRan
  /\ \E i \in 1..Len(FlushBatch) :
       /\ FlushBatch[i].stable
       /\ FlushBatch[i].seg = 5 /\ FlushBatch[i].root = 5
  /\ visibleSegments3D = {6, 7}
  /\ Linked(segmentEquivalences, 5, 6) /\ Linked(segmentEquivalences, 5, 7)

\* C2: every add the flush makes on visibleSegments3D is made under a root that
\* is a member of rootSegments at that moment, and that root is the one under
\* which a flushed response requested the segment.
C2_AddOnlyUnderPresentRoot ==
  \A i \in 1..Len(FlushOps) :
    FlushOps[i].op = "add" =>
      /\ FlushOps[i].root \in rootSegments
      /\ \E k \in 1..Len(FlushBatch) :
           /\ FlushBatch[k].root = FlushOps[i].root
           /\ FlushOps[i].seg \in Range(FlushBatch[k].children)

\* C2 witness: a flush added segments under a present root and skipped the
\* response of a root that had left rootSegments after its response arrived.
C2_Witness ==
  /\ FlushRan
  /\ \E i \in 1..Len(FlushOps) : FlushOps[i].op = "add"
  /\ \E k \in 1..Len(FlushBatch) : FlushBatch[k].root \notin rootSegments

\* What a response that is dropped leaves alone.
ResponseRan == lastStep.kind = "response"
ResponseDropped ==
  /\ requestedChildChunks = lastStep.pendingBefore
  /\ scheduledFlushes = lastStep.flushesBefore

\* C3 (as stated): a response whose root was removed from rootSegments after the
\* getChildren call was issued adds nothing to the pending batch and schedules
\* no flush.
C3_RemovedRootAsStated ==
  (ResponseRan /\ lastStep.removed) => ResponseDropped

\* C3 (amended): a response whose root is not a member of rootSegments when it
\* arrives adds nothing to the pending batch and schedules no flush.
C3_AbsentRootDropped ==
  (ResponseRan /\ lastStep.call.root \notin rootSegments) => ResponseDropped

\* C3 witness: a response arrived whose root was removed after the call was
\* issued and is still absent, while another response is pending.
C3_Witness ==
  /\ ResponseRan
  /\ lastStep.removed
  /\ lastStep.call.root \notin rootSegments
  /\ Len(requestedChildChunks) > 0

\* C4: for every manifest at most one getChildren call is outstanding, and
\* while one is outstanding the manifest is in state REQUESTING_CHILDREN.
C4_OneOutstandingCall ==
  \A s \in Segments :
    /\ CallsFor(s) <= 1
    /\ CallsFor(s) = 1 => manifestState[s] = "REQUESTING_CHILDREN"

\* C4 witness: a pass ran over a visible segment whose manifest is in
\* REQUESTING_CHILDREN and issued no call for it.
C4_Witness ==
  /\ lastStep.kind = "pass"
  /\ visibility = "VISIBLE"
  /\ \E s \in visibleSegments3D :
       /\ manifestState[s] = "REQUESTING_CHILDREN"
       /\ CallsFor(s) = 1
       /\ \A c \in lastStep.calls : c.seg # s

\* Number of failed download attempts of the manifest of s (a failed manifest
\* is never downloaded again).
FailedAttempts(s) ==
  IF manifestState[s] \in {"FAILED", "REQUESTING_CHILDREN"} THEN 1 ELSE 0

\* C5 (as stated): a manifest goes through FAILED -> REQUESTING_CHILDREN ->
\* FAILED at most once per failed download attempt.
C5_OnceAsStated ==
  \A s \in Segments : cycles[s] <= FailedAttempts(s)

\* C5 (amended): a manifest enters REQUESTING_CHILDREN only from FAILED, in a
\* recompute pass over its visible segment, with exactly one call outstanding
\* afterwards; it leaves REQUESTING_CHILDREN only to FAILED, in the response
\* handler of that call, and every response leaves it FAILED; and every pass
\* that finds the manifest of a visible segment FAILED (with a graph client,
\* visibility not -infinity) starts a cycle.
C5_CyclePerPass ==
  [][\A s \in Segments :
       /\ (manifestState[s] # "REQUESTING_CHILDREN"
             /\ manifestState'[s] = "REQUESTING_CHILDREN") =>
            /\ manifestState[s] = "FAILED"
            /\ lastStep'.kind = "pass"
            /\ s \in visibleSegments3D
            /\ CallsFor(s) = 0 /\ CallsFor(s)' = 1
            /\ cycles'[s] = cycles[s] + 1
       /\ (manifestState[s] = "REQUESTING_CHILDREN"
             /\ manifestState'[s] # "REQUESTING_CHILDREN") =>
            /\ manifestState'[s] = "FAILED"
            /\ lastStep'.kind = "response" /\ lastStep'.call.seg = s
            /\ CallsFor(s)' = 0
       /\ (lastStep'.kind = "response" /\ lastStep' # lastStep /\ lastStep'.call.seg = s) =>
            manifestState'[s] = "FAILED"
       /\ (lastStep'.kind = "pass" /\ lastStep' # lastStep /\ visibility = "VISIBLE"
             /\ chunkedGraph /\ s \in visibleSegments3D /\ manifestState[s] = "FAILED") =>
            manifestState'[s] = "REQUESTING_CHILDREN"
       /\ cycles'[s] # cycles[s] => manifestState'[s] = "REQUESTING_CHILDREN"
    ]_vars

\* C5 witness: a second cycle was started for the same failed download while
\* the flush of the first response is still pending and the segment visible.
C5_Witness ==
  \E s \in visibleSegments3D :
    /\ cycles[s] = 2
    /\ manifestState[s] = "REQUESTING_CHILDREN"
    /\ scheduledFlushes > 0
    /\ \E i \in 1..Len(batch) : batch[i].seg = s

\* The pending entry of root r, and what the responses accumulated for r since
\* the last flush put on its lists.
RECURSIVE BatchAdds(_, _)
BatchAdds(b, r) ==
  IF Len(b) = 0 THEN <<>>
  ELSE (IF Head(b).root = r THEN Head(b).children ELSE <<>>) \o BatchAdds(Tail(b), r)
RECURSIVE BatchDeletes(_, _)
BatchDeletes(b, r) ==
  IF Len(b) = 0 THEN <<>>
  ELSE (IF Head(b).root = r THEN <<Head(b).seg>> ELSE <<>>) \o BatchDeletes(Tail(b), r)
BatchRoots(b) == {b[i].root : i \in 1..Len(b)}
TwoResponsesFor(b, r) ==
  \E i, j \in 1..Len(b) : i # j /\ b[i].root = r /\ b[j].root = r
FlushApplied(r) ==
  /\ \A c \in Range(BatchAdds(FlushBatch, r)) :
       \E i \in 1..Len(FlushOps) :
         FlushOps[i] = [op |-> "add", root |-> r, seg |-> c]
  /\ \A s \in Range(BatchDeletes(FlushBatch, r)) :
       \E i \in 1..Len(FlushOps) :
         FlushOps[i] = [op |-> "delete", root |-> r, seg |-> s]
PendingHoldsBatch ==
  /\ batch # <<>> => scheduledFlushes = 1
  /\ \A r \in BatchRoots(batch) :
       \E i \in 1..Len(requestedChildChunks) :
         /\ requestedChildChunks[i].key = Uint64ToString(r)
         /\ requestedChildChunks[i].add = BatchAdds(batch, r)
         /\ requestedChildChunks[i].delete = BatchDeletes(batch, r)
         /\ \A j \in 1..Len(requestedChildChunks) :
              requestedChildChunks[j].key = Uint64ToString(r) => j = i

\* C6 (as stated): two responses for the same root accumulated before the
\* flush produce exactly one flush, which applies the union of their add lists
\* and the union of their delete lists and leaves the pending map empty.
C6_BatchAsStated ==
  /\ PendingHoldsBatch
  /\ \A r \in BatchRoots(FlushBatch) :
       TwoResponsesFor(FlushBatch, r) =>
         /\ scheduledFlushes = 0
         /\ requestedChildChunks = <<>>
         /\ FlushApplied(r)

\* C6 (amended): as C6; the flush applies the lists provided the root is a
\* member of rootSegments when the flush runs.
C6_Batch ==
  /\ PendingHoldsBatch
  /\ \A r \in BatchRoots(FlushBatch) :
       TwoResponsesFor(FlushBatch, r) =>
         /\ scheduledFlushes = 0
         /\ requestedChildChunks = <<>>
         /\ r \in rootSegments => FlushApplied(r)

\* C6 witness: one flush applied two responses for root 5.
C6_Witness ==
  /\ FlushRan
  /\ TwoResponsesFor(FlushBatch, 5)
  /\ 5 \in rootSegments
  /\ FlushApplied(5)
  /\ scheduledFlushes = 0

\* C7 (as stated): after the getChildren promise of the manifest fallback
\* rejected, the manifest chunk is in state FAILED.
C7_RejectionEndsFailed ==
  lastStep.kind = "rejected" => manifestState[lastStep.call.seg] = "FAILED"

C9_NoServerRejects ==
  \A i \in 1..Len(graphCalls) :
    (graphCalls[i].op \in {"merge", "split"} /\ graphurl = "") =>
      /\ graphCalls[i].promise = Rejected("GRAPH_SERVER_NOT_SPECIFIED")
      /\ graphCalls[i].requests = 0
      /\ httpRequests = {}

\* C9 witness: mergeSegments and splitSegments were both called without a
\* graph server.
C9_Witness ==
  /\ graphurl = ""
  /\ \E i, j \in 1..Len(graphCalls) :
       /\ graphCalls[i].op = "merge" /\ graphCalls[i].promise.state = "rejected"
       /\ graphCalls[j].op = "split" /\ graphCalls[j].promise.state = "rejected"

\* Number of requests in flight for call i.
RequestsInFlight(i) == Cardinality({req \in httpRequests : req.call = i})

\* C10: with a graph server every call opens exactly one request, which is in
\* flight exactly while the promise is pending; when the request failed with a
\* transport error the promise is rejected with that error.
C10_OneRequestErrorReraised ==
  \A i \in 1..Len(graphCalls) :
    graphurl # "" =>
      /\ graphCalls[i].requests = 1
      /\ RequestsInFlight(i) = (IF graphCalls[i].promise.state = "pending" THEN 1 ELSE 0)
      /\ graphCalls[i].failedWith # "none" =>
           graphCalls[i].promise = Rejected(graphCalls[i].failedWith)

\* C10 witness: the requests of a getRoot call and of a split call failed with
\* transport errors.
C10_Witness ==
  /\ graphurl # ""
  /\ \E i, j \in 1..Len(graphCalls) :
       /\ graphCalls[i].op = "getRoot" /\ graphCalls[i].failedWith = "HTTP_404"
       /\ graphCalls[j].op = "split" /\ graphCalls[j].failedWith = "HTTP_500"
       /\ graphCalls[i].promise.state = "rejected"
       /\ graphCalls[j].promise.state = "rejected"

\* The requestChunk calls of the pass that ran last.
PassRan == lastStep.kind = "pass"
PassRequested == IF PassRan THEN lastStep.requests ELSE {}
FragmentRequestsOf(s) == {r \in PassRequested : r.kind = "fragment" /\ r.object = s}
ManifestRequestsOf(s) == {r \in PassRequested : r.kind = "manifest" /\ r.object = s}

\* C11: in every pass each manifest chunk is requested at basePriority + 100
\* and each fragment chunk at basePriority + 50, all in the tier of the layer's
\* visibility, so every fragment request has the request of its own manifest in
\* the same pass, in the same tier, exactly 50 above it.
C11_ManifestOutranksFragments ==
  \A r \in PassRequested :
    /\ r.tier = GetPriorityTier(visibility)
    /\ r.kind = "manifest" => r.priority = GetBasePriority(visibility) + 100
    /\ r.kind = "fragment" =>
         /\ r.priority = GetBasePriority(visibility) + 50
         /\ \E m \in ManifestRequestsOf(r.object) :
              /\ m.tier = r.tier
              /\ m.priority - r.priority = 50
              /\ m.priority > r.priority

\* C11 witness: a pass of a prefetched layer requested the manifest of segment 5
\* and its two fragments.
C11_Witness ==
  /\ PassRan
  /\ visibility = "PREFETCH"
  /\ Cardinality(FragmentRequestsOf(5)) = 2
  /\ Cardinality(ManifestRequestsOf(5)) = 1

PassStep == updateScheduled /\ ~updateScheduled'

\* C13: without a graph client, a pass leaves every FAILED manifest FAILED,
\* issues no getChildren call and leaves the pending batch, visibleSegments3D
\* and segmentEquivalences unchanged.
C13_NoClientNoAction ==
  [][(PassStep /\ ~chunkedGraph) =>
       /\ \A s \in Segments : manifestState[s] = "FAILED" => manifestState'[s] = "FAILED"
       /\ getChildrenCalls' = getChildrenCalls
       /\ lastStep'.calls = {}
       /\ requestedChildChunks' = requestedChildChunks
       /\ scheduledFlushes' = scheduledFlushes
       /\ visibleSegments3D' = visibleSegments3D
       /\ segmentEquivalences' = segmentEquivalences
    ]_vars

\* C13 witness: without a graph client a pass ran over visible segment 5, whose
\* manifest is FAILED.
C13_Witness ==
  /\ PassRan
  /\ ~chunkedGraph
  /\ visibility = "VISIBLE"
  /\ 5 \in visibleSegments3D
  /\ manifestState[5] = "FAILED"
  /\ getChildrenCalls = EmptyBag

\* C20: at most one flush is scheduled at any time; a trigger arms the single
\* timer or, when it is armed, restarts it (one flush stays scheduled, no
\* second one is added); the one run of handleChildChunks that the timer starts
\* takes all triggers since the previous run and leaves no flush scheduled.
C20_SingleScheduledFlush ==
  [][/\ scheduledFlushes' \in {0, 1}
     /\ Len(batch') > Len(batch) => scheduledFlushes' = 1
     /\ (batch # <<>> /\ batch' = <<>>) =>
          /\ lastStep'.kind = "flush"
          /\ lastStep'.batch = batch
          /\ scheduledFlushes = 1
          /\ scheduledFlushes' = 0
          /\ requestedChildChunks' = <<>>
     /\ scheduledFlushes' < scheduledFlushes => (batch # <<>> /\ batch' = <<>>)
    ]_vars

\* C20 witness: one run of the flush took three triggers of one window.
C20_Witness ==
  /\ FlushRan
  /\ Len(FlushBatch) = 3
  /\ scheduledFlushes = 0

\* The sub-requests of the leaf download that are still outstanding, and
\* whether the download was started.
SubRequestsPending == {k \in RootKeys : promises[k] = "pending"}
SubRequestsFailed == {k \in RootKeys : promises[k] \in SubFailures}
DownloadStarted == downloadPromise # "idle"

\* C14 (as stated): whenever the leaf download has completed, with success or
\* with failure, none of its sub-requests is outstanding.
C14_CompletesAfterAllSettled ==
  downloadPromise \in {"succeeded", "failed"} => SubRequestsPending = {}

\* C15: once started, the leaf download has succeeded exactly when every
\* sub-request has succeeded, and it has failed exactly when at least one
\* sub-request has failed.
C15_SucceedsIffAllSucceed ==
  DownloadStarted =>
    /\ downloadPromise = "succeeded" <=>
         \A k \in RootKeys : promises[k] \in {"none", "succeeded"}
    /\ downloadPromise = "failed" <=> SubRequestsFailed # {}

\* C15 witness: two sub-requests succeeded and one failed in decoding; the
\* download failed.
C15_Witness ==
  /\ downloadPromise = "failed"
  /\ promises["r1"] = "succeeded"
  /\ promises["r2"] = "decodeFailed"
  /\ promises["r3"] = "succeeded"

\* The decoder ran, with n vertices per primitive, on a buffer that holds whole
\* 32-bit words after the vertex positions.
DecoderRan(n) ==
  /\ downloadResult.verticesPerPrimitive = n
  /\ encoded.trailing = <<>>

\* C16: when decodeVertexPositionsAndIndices runs without a primitive count and
\* the number of indices up to the end of the buffer is not a multiple of
\* verticesPerPrimitive (3 or 2), it throws its decode error and the chunk's
\* vertexPositions and indices are not assigned.
C16_IndexCountChecked ==
  \A n \in {2, 3} :
    (DecoderRan(n) /\ Len(encoded.indices) % n # 0) =>
      /\ downloadResult.state = "failed"
      /\ downloadResult.error = "Error"
      /\ fragmentChunk.vertexPositions = Null
      /\ fragmentChunk.indices = Null

\* C16 witness: a fragment with 4 indices was decoded as triangles and failed.
C16_Witness ==
  /\ DecoderRan(3)
  /\ Len(encoded.indices) = 4
  /\ Len(encoded.vertices) = 2
  /\ downloadResult.state = "failed"

\* C17: decoding the little-endian buffer built from a vertex list V and an
\* index list I whose length is a multiple of 3 succeeds, on a platform of
\* either byte order, and yields vertexPositions equal to the positions of V
\* and indices equal to I, in order.
C17_RoundTrip ==
  (DecoderRan(3) /\ Len(encoded.indices) % 3 = 0 /\ downloadResult.state # "serialized") =>
    /\ downloadResult.state = "succeeded"
    /\ fragmentChunk.vertexPositions # Null
    /\ fragmentChunk.indices # Null
    /\ Elements(response, fragmentChunk.vertexPositions) = Flatten(encoded.vertices)
    /\ Elements(response, fragmentChunk.indices) = encoded.indices

\* C17 witness: on a big-endian platform a fragment of two vertices and the
\* indices 0, 258, 0 was decoded.
C17_Witness ==
  /\ ENDIANNESS = "BIG"
  /\ DecoderRan(3)
  /\ downloadResult.state = "succeeded"
  /\ Len(encoded.vertices) = 2
  /\ encoded.indices = <<0, 258, 0>>
  /\ Elements(response, fragmentChunk.indices) = <<0, 258, 0>>

\* The buffers of the payload a message carries.
PayloadBuffers ==
  {msg.vertexPositions.buffer, msg.indices.buffer, msg.vertexNormals.buffer}
TimesTransferred(b) == Cardinality({i \in 1..Len(transfers) : transfers[i] = b})

\* C19: after serialize the chunk's vertexPositions, indices and vertexNormals
\* are null, the message carries the three arrays, and the transfer list holds
\* every distinct buffer of the payload exactly once and nothing else.
C19_TransferredOnce ==
  downloadResult.state = "serialized" =>
    /\ fragmentChunk = EmptyChunk
    /\ msg.vertexPositions # Null /\ msg.indices # Null /\ msg.vertexNormals # Null
    /\ \A b \in PayloadBuffers : TimesTransferred(b) = 1
    /\ Range(transfers) = PayloadBuffers

\* C19 witness: a decoded fragment was serialized; positions and indices share
\* the response buffer, the normals have their own.
C19_Witness ==
  /\ downloadResult.state = "serialized"
  /\ msg.vertexPositions.buffer = "response"
  /\ msg.indices.buffer = "response"
  /\ msg.vertexNormals.buffer = "normals"
  /\ transfers = <<"response", "normals">>

WellFormedManifest(resp) ==
  /\ resp.t = "object"
  /\ \E p \in resp.props :
       /\ p.name = "fragments"
       /\ p.value.t = "array"
       /\ \A i \in 1..Len(p.value.elems) : p.value.elems[i].t = "string"

C22_HandlerUsesSnapshot ==
  ResponseRan =>
    LET call == lastStep.call
    IN IF call.root \in rootSegments
       THEN requestedChildChunks =
              PendingAccumulate(lastStep.pendingBefore, Uint64ToString(call.root),
                                GraphChildren(call.seg), call.seg)
       ELSE requestedChildChunks = lastStep.pendingBefore

\* C22 witness: the response for segment 5 under root 5 was accumulated while
\* the live objects held segment 1 and root 1, root 1 no longer being selected.
C22_Witness ==
  /\ ResponseRan
  /\ lastStep.call.seg = 5 /\ lastStep.call.root = 5
  /\ lastStep.call.objectId = 1 /\ lastStep.call.rootObjectId = 1
  /\ 1 \notin rootSegments
  /\ \E i \in 1..Len(requestedChildChunks) :
       /\ requestedChildChunks[i].key = <<5>>
       /\ requestedChildChunks[i].delete = <<5>>

\* A step of the response handler, and a step of a pass that iterates over the
\* visible segments with a graph client.
ResponseStep == lastStep'.kind = "response" /\ getChildrenCalls' # getChildrenCalls
IteratingPassStep == PassStep /\ visibility # "NEG_INF" /\ chunkedGraph

OpFromBatch(o) ==
  \E k \in 1..Len(FlushBatch) :
    /\ FlushBatch[k].root = o.root
    /\ IF o.op = "delete"
       THEN o.seg = FlushBatch[k].seg
       ELSE o.seg \in Range(FlushBatch[k].children)
FlushLinked(r) ==
  \A c \in Range(BatchAdds(FlushBatch, r)) :
    /\ \E i \in 1..Len(FlushOps) : FlushOps[i] = [op |-> "link", root |-> r, seg |-> c]
    /\ Linked(segmentEquivalences, r, c)

\* C24: a flush makes no add, link or delete for an entry whose root is not in
\* rootSegments when it runs, applies every add, link and delete of the entries
\* whose root is present, and leaves the pending map empty; every operation of
\* a flush comes from a response accumulated since the previous flush, so an
\* entry that was skipped is never applied later.
C24_SkippedEntryDiscarded ==
  FlushRan =>
    /\ \A i \in 1..Len(FlushOps) :
         /\ FlushOps[i].root \in rootSegments
         /\ OpFromBatch(FlushOps[i])
    /\ \A r \in BatchRoots(FlushBatch) \cap rootSegments :
         FlushApplied(r) /\ FlushLinked(r)
    /\ requestedChildChunks = <<>>
    /\ batch = <<>>

\* C24 witness: a flush skipped the entry of root 1, which had left
\* rootSegments, and applied the entry of root 5.
C24_Witness ==
  /\ FlushRan
  /\ BatchRoots(FlushBatch) = {1, 5}
  /\ rootSegments = {5}
  /\ 1 \in visibleSegments3D
  /\ FlushApplied(5) /\ FlushLinked(5)
  /\ \A i \in 1..Len(FlushOps) : FlushOps[i].root = 5
  /\ requestedChildChunks = <<>>

\* Steps of the scheduler: the flush; and steps of the display layer.
FlushStep == lastStep'.kind = "flush" /\ scheduledFlushes' < scheduledFlushes
ExternalStep == numExternal' # numExternal

\* C25: a pass and a children response (handled or rejected) leave
\* visibleSegments3D, segmentEquivalences and rootSegments unchanged; apart from
\* the display layer, only the flush changes visibleSegments3D or
\* segmentEquivalences, and only the display layer changes rootSegments.
C25_OnlyFlushMutates ==
  [][/\ (PassStep \/ BagCardinality(getChildrenCalls') # BagCardinality(getChildrenCalls)) =>
          /\ visibleSegments3D' = visibleSegments3D
          /\ segmentEquivalences' = segmentEquivalences
          /\ rootSegments' = rootSegments
     /\ (visibleSegments3D' # visibleSegments3D \/ segmentEquivalences' # segmentEquivalences) =>
          (FlushStep \/ ExternalStep)
     /\ segmentEquivalences' # segmentEquivalences => FlushStep
     /\ rootSegments' # rootSegments => ExternalStep
    ]_vars

\* C25 witness: the response for segment 5 with the children 6 and 7 was
\* accumulated; visibleSegments3D still holds 5 and neither child, and no
\* child is linked to the root.
C25_Witness ==
  /\ ResponseRan
  /\ lastStep.call.seg = 5
  /\ Len(requestedChildChunks) = 1
  /\ requestedChildChunks[1].add = <<6, 7>>
  /\ visibleSegments3D \cap {5, 6, 7} = {5}
  /\ ~Linked(segmentEquivalences, 5, 6)

\* C26: whenever the pending batch holds an entry, a flush is scheduled, and
\* the flush eventually runs and leaves the pending map empty; further triggers
\* keep the one flush scheduled and only postpone it.
C26_PendingEventuallyFlushed ==
  /\ [](requestedChildChunks # <<>> => scheduledFlushes = 1)
  /\ (requestedChildChunks # <<>>) ~> (FlushRan /\ requestedChildChunks = <<>>)

\* C26 witness: two responses were accumulated, under the roots 1 and 5, and
\* the flush is scheduled.
C26_Witness ==
  /\ ResponseRan
  /\ Len(requestedChildChunks) = 2
  /\ Len(lastStep.pendingBefore) = 1
  /\ lastStep.flushesBefore = 1
  /\ scheduledFlushes = 1

\* The segments on both the add list and the delete list of root r in the
\* flushed batch.
AddedAndDeleted(r) ==
  Range(BatchAdds(FlushBatch, r)) \cap Range(BatchDeletes(FlushBatch, r))

FailedAwaitingFallback(s) ==
  /\ manifestState[s] = "FAILED"
  /\ cycles[s] = 0
  /\ chunkedGraph
  /\ s \in visibleSegments3D

\* The calls of the next pass would exceed MaxGetChildren.
CallsExhausted == numGetChildren + Cardinality(PassCalls) > MaxGetChildren

\* The steps of downloadFailed and downloadSucceeded for segment s.
DownloadFailedStep(s) ==
  manifestState[s] = "DOWNLOADING" /\ manifestState'[s] = "FAILED"
DownloadSucceededStep(s) ==
  manifestState[s] = "DOWNLOADING" /\ manifestState'[s] = "SYSTEM_MEMORY_WORKER"

\* The two scheduling rules of the download callbacks: a failure schedules a
\* pass; a success schedules one exactly when the tier of the chunk is VISIBLE or
\* PREFETCH, and leaves the schedule as it was when the tier is RECENT.
DownloadSchedules ==
  [][\A s \in Segments :
       /\ DownloadFailedStep(s) => updateScheduled'
       /\ DownloadSucceededStep(s) =>
            IF priorityTier[s] \in {"VISIBLE", "PREFETCH"}
            THEN updateScheduled'
            ELSE updateScheduled' = updateScheduled]_vars

\* C28 as stated: a failed manifest download schedules a pass, and with a graph
\* client and the segment still visible the fallback is eventually started; a
\* successful download schedules a pass only for a tier more urgent than RECENT.
C28_AsStated ==
  /\ DownloadSchedules
  /\ \A s \in Segments :
       FailedAwaitingFallback(s) ~>
         \/ manifestState[s] = "REQUESTING_CHILDREN" /\ CallsFor(s) > 0
         \/ s \notin visibleSegments3D
         \/ CallsExhausted

\* C28: a failed manifest download schedules a pass, and with a graph client,
\* the segment still visible and the visibility of the layer not negative
\* infinity, the fallback (REQUESTING_CHILDREN and a getChildren call) is
\* eventually started; a successful download schedules a pass only for a tier
\* more urgent than RECENT.
C28_FailureStartsFallback ==
  /\ DownloadSchedules
  /\ \A s \in Segments :
       FailedAwaitingFallback(s) ~>
         \/ manifestState[s] = "REQUESTING_CHILDREN" /\ CallsFor(s) > 0
         \/ s \notin visibleSegments3D
         \/ visibility = "NEG_INF"
         \/ CallsExhausted

\* C28 witness: the fallback of segment 5 has been started by the pass that
\* followed its failed download.
C28_Witness ==
  /\ PassRan
  /\ \E c \in lastStep.calls : c.seg = 5
  /\ cycles[5] = 1
  /\ manifestState[5] = "REQUESTING_CHILDREN"
  /\ chunkedGraph

\* The step of PrecomputedChunkedGraphSource.download.
LeafDownloadStep == downloadPromise = "idle" /\ downloadPromise' # "idle"

\* C29: the leaf download issues a request for every root whose mapping is null
\* and none for a root whose mapping is resolved; with no null mapping it issues
\* no request and its promise is fulfilled at once.
C29_OneRequestPerUnresolvedRoot ==
  [][LeafDownloadStep =>
       /\ \A k \in RootKeys :
            /\ mappings[k] = "null" => promises'[k] = "pending"
            /\ mappings[k] # "null" => promises'[k] = "none"
       /\ mappings' = mappings
       /\ (\A k \in RootKeys : mappings[k] # "null") =>
            /\ \A k \in RootKeys : promises'[k] = "none"
            /\ downloadPromise' = "succeeded"
       /\ (\E k \in RootKeys : mappings[k] = "null") => downloadPromise' = "pending"]_vars

\* C29 witness: a download was started with one root unresolved and another
\* resolved; a request is pending for the first and none was issued for the
\* second.
C29_Witness ==
  /\ downloadPromise = "pending"
  /\ \E k1, k2 \in RootKeys :
       /\ mappings[k1] = "null" /\ promises[k1] = "pending"
       /\ mappings[k2] = "mapped" /\ promises[k2] = "none"
       /\ \A k \in RootKeys \ {k1} : promises[k] = "none"

\* C30: a pass that runs while the visibility of the layer is negative
\* infinity requests no manifest chunk and no fragment chunk, leaves the state
\* of every manifest chunk as it was, and issues no getChildren call.
C30_HiddenPassDoesNothing ==
  [][(PassStep /\ visibility = "NEG_INF") =>
       /\ lastStep'.requests = {}
       /\ lastStep'.calls = {}
       /\ manifestState' = manifestState
       /\ getChildrenCalls' = getChildrenCalls
       /\ numGetChildren' = numGetChildren
       /\ cycles' = cycles]_vars

\* C30 witness: a pass ran under negative-infinity visibility with a graph
\* client, a visible segment whose manifest is FAILED and another whose
\* manifest was never requested; neither was touched.
C30_Witness ==
  /\ PassRan
  /\ visibility = "NEG_INF"
  /\ chunkedGraph
  /\ \E s, t \in visibleSegments3D :
       /\ manifestState[s] = "FAILED" /\ CallsFor(s) = 0
       /\ manifestState[t] = "NEW"
  /\ lastStep.requests = {}

====
